---- MODULE Spec2Model ----
(***************************************************************************)
(* The asynchronous execution orchestrator of OSTK (src/src/commands.rs,   *)
(* src/src/state.rs): the command handlers that set the parameters, start  *)
(* and cancel a remote query, the background unit each accepted start      *)
(* spawns, and the fire-and-forget tasks its progress callback spawns, all *)
(* serialised by the one tokio Mutex around AppState.                      *)
(*                                                                         *)
(* A step of the model is one lock section of one task (the code between   *)
(* state.lock().await and the guard's drop) together with the network     *)
(* call that precedes it in the same task.  cancel_query keeps its guard   *)
(* across its two network calls, so it is the only handler that spans      *)
(* several steps with the lock held.                                       *)
(*                                                                         *)
(* The chat is modelled next to it: send_message (src/src/commands.rs) with *)
(* the agent's extraction of a ParsedQuery from the model's answer         *)
(* (src/src/agent.rs), and set_query_type.  Spec, SpecRestart and          *)
(* SpecProgress are the orchestrator under growing bounds; SpecAgent is    *)
(* the chat alone; SpecParams is the runs next to everything that changes  *)
(* the shared params and query type.  SpecExtract is the chat with the     *)
(* answers that try the extraction, SpecRerun is two runs in a row, and    *)
(* SpecLive is Spec under fair scheduling.                                 *)
(*                                                                         *)
(* Option<T> is a sequence: <<>> is None, <<v>> is Some(v).  Strings that  *)
(* format! builds are tuples of their pieces.  add_log's "[HH:MM:SS] "     *)
(* prefix is left out: the model has no wall clock.                        *)
(***************************************************************************)
EXTENDS Integers, Sequences, FiniteSets, TLC

\* Bounds of the model: Spec allows MaxRuns accepted starts and MaxProgress
\* progress-callback invocations (over all runs); SpecRestart allows one more
\* of each, so that a run is started while an earlier run's unit and tasks
\* are still alive.
MaxRuns == 1
MaxProgress == 1
\* SpecAgent and SpecParams allow MaxChats calls of send_message.
MaxChats == 1
\* The longest bounds array of the model drawn item by item.
MaxBoundsLen == 5

VARIABLES
    app,        \* AppState: query_params, query_type, last_result, execution
    lock,       \* holder of the Mutex<AppState>: "free" or "cancel_query"
    units,      \* background units, by run number: execute_query_background
    tasks,      \* spawned, not yet applied progress-callback tasks
    cancel,     \* cancel_query's position (its await) and its cloned query id
    nruns,      \* number of accepted starts so far
    nprogress,  \* number of progress-callback invocations so far
    chat        \* send_message's position, its config and the agent's answer

vars == <<app, lock, units, tasks, cancel, nruns, nprogress, chat>>

NoneV == <<>>
Some(v) == <<v>>
IsSome(o) == o # <<>>

Runs == 1..(MaxRuns + 1)

\* ---------------------------------------------------------------- inputs

\* JSON values the front end sends to set_query_param.
JNull == [json |-> "null"]
JStr(s) == [json |-> "string", s |-> s]
JsonValues == {JNull, JStr("2024-01-01 00:00:00")}

JInt(n) == [json |-> "int", n |-> n]
\* A JSON number written with a fraction; an f64 is counted in tenths.
JFloat(tenths) == [json |-> "float", tenths |-> tenths]
JArr(items) == [json |-> "array", items |-> items]

\* serde_json::Value::as_str().map(String::from)
as_str(value) == IF value.json = "string" THEN Some(value.s) ELSE NoneV
\* Value::as_u64(): a number written as a non-negative integer.
as_u64(value) == IF value.json = "int" /\ value.n >= 0 THEN Some(value.n) ELSE NoneV
\* Value::as_f64(): any number.
as_f64(value) ==
    CASE value.json = "int" -> Some(value.n * 10)
      [] value.json = "float" -> Some(value.tenths)
      [] OTHER -> NoneV
\* `v as u32` on a u64: v % 2^32.  The integers of the model end at
\* 2^31 - 1, so the cast keeps every u64 the model can hold.
as_u32(v) == v
unwrap_or(o, default) == IF IsSome(o) THEN o[1] ELSE default

ParamKeys == {"start", "colour"}

\* What Trino::new() can answer.
ConnErrors == {"connection refused"}
\* What the engine call can answer: Ok(FlightData) or Err(e).
Columns1 == <<"icao24">>
Columns2 == <<"icao24", "time">>
FlightDatas ==
    { [row_count |-> 0, columns |-> Columns1],
      [row_count |-> 2, columns |-> Columns2] }
EngineErrors == {"query failed"}
EngineOutcomes ==
    { [ok |-> TRUE, data |-> d] : d \in FlightDatas }
        \cup { [ok |-> FALSE, error |-> e] : e \in EngineErrors }

\* The handle the remote engine gives the query of run r.
Handle(r) == <<"query", r>>

\* opensky::QueryStatus values a progress callback carries during run r.
QueryStatuses(r) ==
    { [state |-> "RUNNING", progress |-> 50, row_count |-> 0, query_id |-> q] :
        q \in {NoneV, Some(Handle(r))} }

\* What the front end sends to set_query_type.
QueryTypeNames == {"trajectory", "rawdata", "cargo"}

\* What the user types into the chat.
UserMessages == {<<"flights of 3c6444 yesterday">>}

\* What LlmConfig::load() can find in the settings file and the environment.
LlmConfigs ==
    { [provider |-> "groq", groq_api_key |-> <<"gsk_key">>, groq_model |-> "llama-3.3",
       openai_api_key |-> <<>>],
      [provider |-> "groq", groq_api_key |-> <<>>, groq_model |-> "",
       openai_api_key |-> <<>>],
      [provider |-> "openai", groq_api_key |-> <<>>, groq_model |-> "",
       openai_api_key |-> <<>>],
      [provider |-> "ollama", groq_api_key |-> <<>>, groq_model |-> "",
       openai_api_key |-> <<>>] }

\* ------------------------------------------------------------ state.rs

\* QueryParams::new(): every field None.
NewQueryParams ==
    [icao24 |-> NoneV, start |-> NoneV, stop |-> NoneV, callsign |-> NoneV,
     departure_airport |-> NoneV, arrival_airport |-> NoneV, airport |-> NoneV,
     limit |-> NoneV, bounds |-> NoneV]

\* Bounds::new taking its second and third argument the other way round.
NewBounds_east_before_south(west, south, east, north) ==
    [west |-> west, south |-> east, east |-> south, north |-> north]

\* opensky::Bounds::new(west, south, east, north)
NewBounds(west, south, east, north) ==
    [west |-> west, south |-> south, east |-> east, north |-> north]

DefaultExecutionState ==
    [is_executing |-> FALSE, status |-> <<>>, logs |-> <<>>,
     query_id |-> NoneV, result |-> NoneV]

\* query_type is the field execute_query_async reads (commands.rs:170); it
\* starts at QueryType's #[default] variant, Flights (agent.rs:20).
DefaultAppState ==
    [query_params |-> NewQueryParams,
     query_type |-> "flights",
     messages |-> <<>>,
     last_result |-> NoneV,
     execution |-> DefaultExecutionState,
     agent_configured |-> FALSE,
     provider_name |-> "",
     model_name |-> "",
     error_message |-> NoneV]

\* ChatMessage::new and AppState::add_message
ChatMessage(role, content, msg_type) ==
    [role |-> role, content |-> content, msg_type |-> msg_type]
add_message(a, role, content, msg_type) ==
    [a EXCEPT !.messages = Append(@, ChatMessage(role, content, msg_type))]
clear_messages_locked(a) == [a EXCEPT !.messages = <<>>]

\* add_log putting the newest line first.
add_log_newest_first(a, message) ==
    [a EXCEPT !.execution.logs = <<message>> \o @]

add_log(a, message) == [a EXCEPT !.execution.logs = Append(@, message)]

\* reset_execution that also forgets the last result.
reset_execution_clears_last_result(a) ==
    [a EXCEPT !.last_result = NoneV,
              !.execution =
                [is_executing |-> TRUE,
                 status |-> <<"Connecting to OpenSky...">>,
                 logs |-> <<>>,
                 query_id |-> NoneV,
                 result |-> NoneV]]

reset_execution(a) ==
    [a EXCEPT !.execution =
        [is_executing |-> TRUE,
         status |-> <<"Connecting to OpenSky...">>,
         logs |-> <<>>,
         query_id |-> NoneV,
         result |-> NoneV]]

\* ExecutionResult variants.
Success(n, cols) ==
    [variant |-> "Success", success |-> TRUE, row_count |-> n, columns |-> cols]
NoData(msg) == [variant |-> "NoData", error |-> msg, row_count |-> 0]
Error(msg) == [variant |-> "Error", error |-> msg]
Cancelled == [variant |-> "Cancelled", cancelled |-> TRUE]

\* ---------------------------------------------------------- bookkeeping

\* A background unit: where it is, and the params and query type it owns.
NoUnit == [pc |-> "none", params |-> NewQueryParams, query_type |-> "flights"]
\* A unit that has returned: its locals are gone.
DoneUnit == [NoUnit EXCEPT !.pc = "done"]

CancelIdle == [pc |-> "idle", qid |-> NoneV]

\* No send_message is under way; n calls were made so far.
ChatIdle(n) == [pc |-> "idle", n |-> n]

Init ==
    /\ app = DefaultAppState
    /\ lock = "free"
    /\ units = [r \in Runs |-> NoUnit]
    /\ tasks = {}
    /\ cancel = CancelIdle
    /\ nruns = 0
    /\ nprogress = 0
    /\ chat = ChatIdle(0)

\* -------------------------------------------------------------- agent.rs

\* The text of a model response, as its pieces: an opening brace, a closing
\* brace, one "key": value member of an object (with its comma), or any
\* other run of characters without a brace.
LBrace == [t |-> "{"]
RBrace == [t |-> "}"]
Prose(s) == [t |-> "text", s |-> s]
Member(key, value) == [t |-> "member", k |-> key, v |-> value]
IsBrace(tok) == tok.t \in {"{", "}"}

\* A search that counts the depth of the braces: from the first opening brace
\* to the closing brace that balances it.
find_json_balanced(response) ==
    LET depth(i, j) ==
            Cardinality({k \in i..j : response[k] = LBrace})
                - Cardinality({k \in i..j : response[k] = RBrace})
        opens == {i \in 1..Len(response) : response[i] = LBrace}
        first == CHOOSE i \in opens : \A h \in opens : i <= h
        ends == {j \in first..Len(response) : depth(first, j) = 0}
    IN  IF opens = {} \/ ends = {} THEN NoneV
        ELSE Some(SubSeq(response, first, CHOOSE j \in ends : \A h \in ends : j <= h))

\* The search taking the last brace pair of the response instead of the first.
find_json_rightmost(response) ==
    LET closes(i) ==
            {j \in (i + 1)..Len(response) :
                /\ response[j] = RBrace
                /\ \A k \in (i + 1)..(j - 1) : ~IsBrace(response[k])}
        starts == {i \in 1..Len(response) : response[i] = LBrace /\ closes(i) # {}}
    IN  IF starts = {} THEN NoneV
        ELSE LET i == CHOOSE x \in starts : \A y \in starts : x >= y
                 j == CHOOSE x \in closes(i) : TRUE
             IN  Some(SubSeq(response, i, j))

\* Regex::new(r"\{[^{}]*\}").find(response): the leftmost opening brace whose
\* next brace is a closing one, up to that closing brace; None without one.
find_json(response) ==
    LET closes(i) ==
            {j \in (i + 1)..Len(response) :
                /\ response[j] = RBrace
                /\ \A k \in (i + 1)..(j - 1) : ~IsBrace(response[k])}
        starts == {i \in 1..Len(response) : response[i] = LBrace /\ closes(i) # {}}
    IN  IF starts = {} THEN NoneV
        ELSE LET i == CHOOSE x \in starts : \A y \in starts : x <= y
                 j == CHOOSE x \in closes(i) : TRUE
             IN  Some(SubSeq(response, i, j))

\* The fields of ParsedParams and the type each is deserialized as.
FieldType(key) ==
    CASE key = "status" -> "String"
      [] key \in {"reason", "hint", "icao24", "start", "stop", "callsign",
                  "departure_airport", "arrival_airport", "airport"} -> "OptString"
      [] key = "query_type" -> "OptQueryType"
      [] key = "limit" -> "OptU32"
      [] key = "bounds" -> "OptVecF64"
      [] key = "time_buffer" -> "OptI64"
      [] OTHER -> "ignored"

QueryTypes == {"flights", "trajectory", "rawdata"}
\* #[derive(Default)] with #[default] on Flights
DefaultQueryType == "flights"

\* Whether serde accepts a JSON value for a field of the given type.
Accepts(type, value) ==
    CASE type = "ignored" -> TRUE
      [] type = "String" -> value.json = "string"
      [] value.json = "null" -> TRUE
      [] type = "OptString" -> value.json = "string"
      [] type = "OptQueryType" -> value.json = "string" /\ value.s \in QueryTypes
      [] type = "OptU32" -> value.json = "int" /\ value.n >= 0
      [] type = "OptI64" -> value.json = "int"
      [] type = "OptVecF64" ->
            /\ value.json = "array"
            /\ \A i \in 1..Len(value.items) : value.items[i].json \in {"int", "float"}

\* The value serde stores for an accepted JSON value.
Deserialized(type, value) ==
    CASE type = "String" -> value.s
      [] value.json = "null" -> NoneV
      [] type \in {"OptString", "OptQueryType"} -> Some(value.s)
      [] type \in {"OptU32", "OptI64"} -> Some(value.n)
      [] type = "OptVecF64" ->
            Some([i \in 1..Len(value.items) |-> as_f64(value.items[i])[1]])

\* ParsedParams with every #[serde(default)] field at its default; status has
\* no default.
DefaultParsedParams ==
    [status |-> NoneV, reason |-> NoneV, query_type |-> NoneV, hint |-> NoneV,
     icao24 |-> NoneV, start |-> NoneV, stop |-> NoneV, callsign |-> NoneV,
     departure_airport |-> NoneV, arrival_airport |-> NoneV, airport |-> NoneV,
     limit |-> NoneV, bounds |-> NoneV, time_buffer |-> NoneV]

ParseErr(msg) == [ok |-> FALSE, error |-> [kind |-> "Parse", msg |-> msg]]

\* from_str for a ParsedParams that denies unknown fields.
from_str_denies_unknown(json_str) ==
    LET inner == SubSeq(json_str, 2, Len(json_str) - 1)
        n == Len(inner)
        bads == {i \in 1..n :
                    \/ inner[i].t # "member"
                    \/ FieldType(inner[i].k) = "ignored"
                    \/ ~Accepts(FieldType(inner[i].k), inner[i].v)
                    \/ \E h \in 1..(i - 1) : inner[h].t = "member" /\ inner[h].k = inner[i].k}
        value(key) ==
            LET at == {i \in 1..n : inner[i].k = key} IN
            IF at = {} THEN DefaultParsedParams[key]
            ELSE LET i == CHOOSE x \in at : TRUE
                 IN  IF key = "status" THEN Some(Deserialized("String", inner[i].v))
                     ELSE Deserialized(FieldType(key), inner[i].v)
    IN  IF bads # {}
        THEN [ok |-> FALSE, error |-> <<"unknown field or invalid value">>]
        ELSE IF \A i \in 1..n : inner[i].k # "status"
        THEN [ok |-> FALSE, error |-> <<"missing field ", "status">>]
        ELSE [ok |-> TRUE,
              parsed |-> [key \in DOMAIN DefaultParsedParams |-> value(key)]]

\* serde_json::from_str::<ParsedParams>(json_str): the text between the braces
\* must be members only; the members are visited in order, a known field may
\* come once and must have its type; status must have come.
from_str(json_str) ==
    LET inner == SubSeq(json_str, 2, Len(json_str) - 1)
        n == Len(inner)
        known(i) == FieldType(inner[i].k) # "ignored"
        bad(i) ==
            \/ inner[i].t # "member"
            \/ ~Accepts(FieldType(inner[i].k), inner[i].v)
            \/ known(i) /\ \E h \in 1..(i - 1) : inner[h].t = "member" /\ inner[h].k = inner[i].k
        bads == {i \in 1..n : bad(i)}
        first == CHOOSE i \in bads : \A h \in bads : i <= h
        value(key) ==
            LET at == {i \in 1..n : inner[i].k = key} IN
            IF at = {} THEN DefaultParsedParams[key]
            ELSE LET i == CHOOSE x \in at : TRUE
                 IN  IF key = "status" THEN Some(Deserialized("String", inner[i].v))
                     ELSE Deserialized(FieldType(key), inner[i].v)
    IN  IF bads # {}
        THEN [ok |-> FALSE,
              error |-> IF inner[first].t # "member" THEN <<"expected value">>
                        ELSE IF ~Accepts(FieldType(inner[first].k), inner[first].v)
                        THEN <<"invalid type or value for ", inner[first].k>>
                        ELSE <<"duplicate field ", inner[first].k>>]
        ELSE IF \A i \in 1..n : inner[i].k # "status"
        THEN [ok |-> FALSE, error |-> <<"missing field ", "status">>]
        ELSE [ok |-> TRUE,
              parsed |-> [key \in DOMAIN DefaultParsedParams |-> value(key)]]

\* The canned hint of the trajectory query, whatever the query type.
default_hint_trajectory(query_type) == "Download trajectory data"

\* The canned hint of a query type.
default_hint(query_type) ==
    CASE query_type = "trajectory" -> "Download trajectory data"
      [] query_type = "flights" -> "Download flight list"
      [] query_type = "rawdata" -> "Download raw ADS-B messages"

\* extract_params with an unclear status reported without the model's reason.
extract_params_drops_reason(response) ==
    LET json_str == find_json(response) IN
    IF json_str = NoneV THEN ParseErr(<<"No JSON object found in response">>)
    ELSE LET de == from_str(json_str[1]) IN
    IF ~de.ok THEN ParseErr(<<"JSON parse error: ", de.error>>)
    ELSE LET parsed == de.parsed IN
    IF parsed.status = Some("unclear")
    THEN ParseErr(<<"Query unclear: ", "Query not clear">>)
    ELSE LET query_type == unwrap_or(parsed.query_type, DefaultQueryType)
             params == [NewQueryParams EXCEPT
                            !.start = parsed.start,
                            !.stop = parsed.stop,
                            !.icao24 = parsed.icao24,
                            !.callsign = parsed.callsign,
                            !.departure_airport = parsed.departure_airport,
                            !.arrival_airport = parsed.arrival_airport,
                            !.airport = parsed.airport,
                            !.limit = parsed.limit]
             b == parsed.bounds
         IN  [ok |-> TRUE,
              query_type |-> query_type,
              hint |-> unwrap_or(parsed.hint, default_hint(query_type)),
              params |-> IF IsSome(b) /\ Len(b[1]) = 4
                         THEN [params EXCEPT !.bounds =
                                  Some(NewBounds(b[1][1], b[1][2], b[1][3], b[1][4]))]
                         ELSE params]

\* Agent::extract_params(response): Ok(ParsedQuery) or Err(LlmError::Parse).
extract_params(response) ==
    LET json_str == find_json(response) IN
    IF json_str = NoneV THEN ParseErr(<<"No JSON object found in response">>)
    ELSE LET de == from_str(json_str[1]) IN
    IF ~de.ok THEN ParseErr(<<"JSON parse error: ", de.error>>)
    ELSE LET parsed == de.parsed IN
    IF parsed.status = Some("unclear")
    THEN ParseErr(<<"Query unclear: ", unwrap_or(parsed.reason, "Query not clear")>>)
    ELSE LET query_type == unwrap_or(parsed.query_type, DefaultQueryType)
             hint == unwrap_or(parsed.hint, default_hint(query_type))
             params == [NewQueryParams EXCEPT
                            !.start = parsed.start,
                            !.stop = parsed.stop,
                            !.icao24 = parsed.icao24,
                            !.callsign = parsed.callsign,
                            !.departure_airport = parsed.departure_airport,
                            !.arrival_airport = parsed.arrival_airport,
                            !.airport = parsed.airport,
                            !.limit = parsed.limit]
             b == parsed.bounds
         IN  [ok |-> TRUE,
              query_type |-> query_type,
              hint |-> hint,
              params |-> IF IsSome(b) /\ Len(b[1]) = 4
                         THEN [params EXCEPT !.bounds =
                                  Some(NewBounds(b[1][1], b[1][2], b[1][3], b[1][4]))]
                         ELSE params]

\* The flat objects the model answers with: a status, and any of a reason, a
\* query type, a hint, an icao24, a start time and a limit.
Opt(member) == {<<>>, <<member>>}
FlatObjects ==
    { s \o r \o q \o h \o i \o st \o l :
        s \in {<<Member("status", JStr(x))>> : x \in {"ok", "unclear", "partial"}},
        r \in Opt(Member("reason", JStr("ambiguous airport"))),
        q \in {<<>>} \cup {<<Member("query_type", JStr(x))>> : x \in QueryTypes},
        h \in Opt(Member("hint", JStr("Flights of 3c6444"))),
        i \in Opt(Member("icao24", JStr("3c6444"))),
        st \in Opt(Member("start", JStr("2024-01-01 00:00:00"))),
        l \in Opt(Member("limit", JInt(50))) }

\* What GroqClient::complete can answer: Ok(text) or Err(LlmError).
LlmOk(response) == [ok |-> TRUE, response |-> response]
LlmErr(kind, msg) == [ok |-> FALSE, error |-> [kind |-> kind, msg |-> msg]]
LlmAnswers ==
    { LlmOk(<<Prose("Here is the query:"), LBrace>> \o object \o <<RBrace>>) :
        object \in FlatObjects }
        \cup { LlmOk(<<Prose("I cannot help with that.")>>),
               LlmErr("Api", <<"Rate limit reached">>) }
\* Two of them: a trajectory query with a start time, and an unclear one.
FewAnswers ==
    { LlmOk(<<LBrace, Member("status", JStr("ok")),
              Member("query_type", JStr("trajectory")),
              Member("start", JStr("2024-02-02 00:00:00")), RBrace>>),
      LlmOk(<<LBrace, Member("status", JStr("unclear")), RBrace>>) }

\* Every sequence over a set of items, of a length up to n.
RECURSIVE SeqsUpTo(_, _)
SeqsUpTo(items, n) ==
    IF n = 0 THEN {<<>>}
    ELSE LET shorter == SeqsUpTo(items, n - 1)
         IN  shorter \cup {Append(s, x) : s \in {s \in shorter : Len(s) = n - 1},
                                          x \in items}

Object(members) == <<LBrace>> \o members \o <<RBrace>>

\* Answers whose flat object has a bounds member: null, every array of up to
\* MaxBoundsLen of the numbers 1 and 2.5, the array [1, 2, 3, 4], and an
\* array holding a string.
BoundsValues ==
    {JNull, JArr(<<JInt(1), JInt(2), JInt(3), JInt(4)>>),
     JArr(<<JInt(1), JStr("north"), JInt(3), JInt(4)>>)}
        \cup {JArr(items) : items \in SeqsUpTo({JInt(1), JFloat(25)}, MaxBoundsLen)}
BoundsAnswers ==
    { LlmOk(Object(<<Member("status", JStr("ok")), Member("bounds", b)>>)) :
        b \in BoundsValues }

\* Answers that embed objects in prose: one flat object between two runs of
\* prose, two flat objects, an unmatched opening brace before a flat object,
\* braces that never pair up, and braces around something that is not JSON.
EmbeddedObjects ==
    { <<Member("status", JStr("ok")), Member("icao24", JStr("3c6444"))>>,
      <<Member("status", JStr("partial")), Member("callsign", JStr("DLH123")),
        Member("bounds", JArr(<<JInt(1), JInt(2), JInt(3), JInt(4)>>))>>,
      <<Member("status", JStr("unclear"))>>,
      <<>> }
EmbeddedAnswers ==
    { LlmOk(<<Prose("Sure! Here is the query: ")>> \o Object(object)
                \o <<Prose(" Let me know if you need anything else.")>>) :
        object \in EmbeddedObjects }
        \cup { LlmOk(Object(first) \o <<Prose(" or ")>> \o Object(second)) :
                first \in EmbeddedObjects, second \in EmbeddedObjects }
        \cup { LlmOk(<<Prose("set "), LBrace, Prose(" then ")>> \o Object(object)) :
                object \in EmbeddedObjects }
        \cup { LlmOk(<<RBrace, Prose(" and "), LBrace>>),
               LlmOk(<<LBrace, Prose("status: ok")>>),
               LlmOk(<<>>),
               LlmOk(Object(<<Prose("status: ok")>>)) }

\* Answers whose flat object leaves fields out or has members ParsedParams
\* does not know: with and without a status, a start, a time_buffer, a
\* confidence and a notes member.
SchemaAnswers ==
    { LlmOk(Object(s \o st \o t \o c \o n)) :
        s \in Opt(Member("status", JStr("ok"))),
        st \in Opt(Member("start", JStr("2024-01-01 00:00:00"))),
        t \in Opt(Member("time_buffer", JInt(5))),
        c \in Opt(Member("confidence", JFloat(9))),
        n \in Opt(Member("notes", JArr(<<JStr("guessed the year")>>))) }

\* Answers whose top-level object holds nested objects: after its own
\* members status, icao24 and start comes a member whose value is an object,
\* and then possibly a second one.
NestedObjects ==
    { <<>>,
      <<Member("min", JInt(1))>>,
      <<Member("status", JStr("ok")), Member("callsign", JStr("DLH123"))>>,
      <<Member("status", JStr("unclear")), Member("reason", JStr("no airport"))>> }
NestedAnswers ==
    { LlmOk(<<LBrace, Member("status", JStr("ok")), Member("icao24", JStr("3c6444")),
              Prose("\"filter\":")>> \o Object(first) \o more
                \o <<Member("start", JStr("2024-01-01 00:00:00")), RBrace>>) :
        first \in NestedObjects,
        more \in {<<>>} \cup {<<Prose(",\"extra\":")>> \o Object(second) :
                                second \in NestedObjects} }

\* Requests that fail: in transport, and with a non-2xx status.
FailedAnswers ==
    { LlmErr("Http", <<"error sending request">>),
      LlmErr("Api", <<"Rate limit reached">>) }

ShapedAnswers ==
    BoundsAnswers \cup EmbeddedAnswers \cup SchemaAnswers \cup NestedAnswers
        \cup FailedAnswers

\* Display of LlmError (thiserror)
display(e) ==
    <<CASE e.kind = "Http" -> "HTTP error: "
        [] e.kind = "Api" -> "API error: "
        [] e.kind = "NotConfigured" -> "Not configured: "
        [] e.kind = "Parse" -> "Parse error: ",
      e.msg>>

\* Agent::parse_query once client.complete(...).await has answered: `?` passes
\* the client's error on, a response goes to extract_params.
parse_query(answer) ==
    IF answer.ok THEN extract_params(answer.response)
    ELSE [ok |-> FALSE, error |-> answer.error]

\* ------------------------------------------- commands.rs: query parameters

UnknownParameter(key) == [err |-> <<"Unknown parameter: ", key>>]

\* set_query_param under the lock: the match on the key.
set_query_param_locked(a, key, value) ==
    LET StringKeys == {"icao24", "start", "stop", "callsign", "departure_airport",
                       "arrival_airport", "airport"}
        Ok(params) == [reply |-> [ok |-> TRUE],
                       app |-> [a EXCEPT !.query_params = params]]
        p == a.query_params
    IN  CASE key \in StringKeys -> Ok([p EXCEPT ![key] = as_str(value)])
          [] key = "limit" ->
                Ok([p EXCEPT !.limit =
                        IF IsSome(as_u64(value))
                        THEN Some(as_u32(as_u64(value)[1])) ELSE NoneV])
          [] key = "bounds" ->
                IF value.json = "null" THEN Ok([p EXCEPT !.bounds = NoneV])
                ELSE IF value.json = "array" /\ Len(value.items) = 4
                THEN Ok([p EXCEPT !.bounds =
                            Some(NewBounds(unwrap_or(as_f64(value.items[1]), 0),
                                           unwrap_or(as_f64(value.items[2]), 0),
                                           unwrap_or(as_f64(value.items[3]), 0),
                                           unwrap_or(as_f64(value.items[4]), 0)))])
                ELSE Ok(p)
          [] OTHER -> [reply |-> UnknownParameter(key), app |-> a]

set_query_param ==
    /\ lock = "free"
    /\ \E key \in ParamKeys, value \in JsonValues :
        app' = set_query_param_locked(app, key, value).app
    /\ UNCHANGED <<lock, units, tasks, cancel, nruns, nprogress, chat>>

clear_query_params ==
    /\ lock = "free"
    /\ app' = [app EXCEPT !.query_params = NewQueryParams]
    /\ UNCHANGED <<lock, units, tasks, cancel, nruns, nprogress, chat>>

\* ------------------------------------------------ commands.rs: execution

StartRequired == [error |-> "Start time is required"]
AlreadyRunning == [error |-> "A query is already running"]
Started == [started |-> TRUE]

\* execute_query_async with its two early returns in the other order.
execute_query_async_running_first(a) ==
    IF a.execution.is_executing
    THEN [reply |-> AlreadyRunning, app |-> a, spawn |-> FALSE]
    ELSE IF a.query_params.start = NoneV
    THEN [reply |-> StartRequired, app |-> a, spawn |-> FALSE]
    ELSE [reply |-> Started,
          app |-> add_log(reset_execution(a), <<"Starting query execution">>),
          spawn |-> TRUE]

\* execute_query_async with the reset moved above the already-running check.
execute_query_async_reset_first(a) ==
    IF a.query_params.start = NoneV
    THEN [reply |-> StartRequired, app |-> a, spawn |-> FALSE]
    ELSE IF a.execution.is_executing
    THEN [reply |-> AlreadyRunning, app |-> reset_execution(a), spawn |-> FALSE]
    ELSE [reply |-> Started,
          app |-> add_log(reset_execution(a), <<"Starting query execution">>),
          spawn |-> TRUE]

\* execute_query_async with a reset that keeps the logs of the previous run.
execute_query_async_keeps_logs(a) ==
    IF a.query_params.start = NoneV
    THEN [reply |-> StartRequired, app |-> a, spawn |-> FALSE]
    ELSE IF a.execution.is_executing
    THEN [reply |-> AlreadyRunning, app |-> a, spawn |-> FALSE]
    ELSE [reply |-> Started,
          app |-> add_log([a EXCEPT !.execution.is_executing = TRUE,
                                    !.execution.status = <<"Connecting to OpenSky...">>,
                                    !.execution.query_id = NoneV,
                                    !.execution.result = NoneV],
                          <<"Starting query execution">>),
          spawn |-> TRUE]

\* execute_query_async under the lock: the reply, the state it leaves and
\* whether it spawns a background unit.  The two early returns come first, in
\* the order of the code.
execute_query_async_locked(a) ==
    IF a.query_params.start = NoneV
    THEN [reply |-> StartRequired, app |-> a, spawn |-> FALSE]
    ELSE IF a.execution.is_executing
    THEN [reply |-> AlreadyRunning, app |-> a, spawn |-> FALSE]
    ELSE [reply |-> Started,
          app |-> add_log(reset_execution(a), <<"Starting query execution">>),
          spawn |-> TRUE]

execute_query_async(max_runs) ==
    /\ lock = "free"
    /\ LET out == execute_query_async_locked(app) IN
        /\ app' = out.app
        /\ IF out.spawn
           THEN /\ nruns < max_runs
                /\ nruns' = nruns + 1
                \* params and query_type are cloned before the lock is dropped
                /\ units' = [units EXCEPT ![nruns + 1] =
                        [pc |-> "spawned",
                         params |-> app.query_params,
                         query_type |-> app.query_type]]
           ELSE UNCHANGED <<units, nruns>>
    /\ UNCHANGED <<lock, tasks, cancel, nprogress, chat>>

\* ------------------------------------- commands.rs: the background unit

type_str(query_type) ==
    CASE query_type = "trajectory" -> "trajectory"
      [] query_type = "flights" -> "flight list"
      [] query_type = "rawdata" -> "raw data"

\* The SQL text the opensky crate builds, as its lines: one line naming the
\* query shape and the parameters it was built from.
sql_lines(params, query_type) ==
    << <<CASE query_type = "trajectory" -> "history"
           [] query_type = "flights" -> "flightlist"
           [] query_type = "rawdata" -> "rawdata",
         params>> >>

RECURSIVE add_logs(_, _)
add_logs(a, lines) ==
    IF lines = <<>> THEN a
    ELSE add_logs(add_log(a, Head(lines)), Tail(lines))

\* First lock section: the start line, the SQL, the rule under it.
log_start_and_sql(a, params, query_type) ==
    add_log(
        add_logs(
            add_log(
                add_log(a, <<"Starting ", type_str(query_type), " query execution">>),
                <<"----- SQL Query -----">>),
            sql_lines(params, query_type)),
        <<"---------------------">>)

\* The Err arm of Trino::new() without its last line: is_executing stays set.
connection_error_keeps_executing(a, e) ==
    LET a1 == add_log(a, <<"Connection error: ", e>>)
        a2 == [a1 EXCEPT !.execution.status = <<"Error">>]
    IN  [a2 EXCEPT !.execution.result = Some(Error(e))]

\* Err arm of Trino::new(): the connection-error terminal write.
connection_error(a, e) ==
    LET a1 == add_log(a, <<"Connection error: ", e>>)
        a2 == [a1 EXCEPT !.execution.status = <<"Error">>]
        a3 == [a2 EXCEPT !.execution.result = Some(Error(e))]
    IN  [a3 EXCEPT !.execution.is_executing = FALSE]

\* Ok arm: the lock section that advances the run to Executing.
connected(a) ==
    [add_log(a, <<"Connected to OpenSky Trino">>)
        EXCEPT !.execution.status = <<"Executing query...">>]

\* format!("{} | {:.1}% | {} rows", state, progress, row_count)
progress_status(status) ==
    <<status.state, " | ", status.progress, "% | ", status.row_count, " rows">>

\* The progress task without the query_id.is_none() test: every update that
\* carries a handle records it and logs it.
progress_update_overwrites(a, status) ==
    LET a1 == [a EXCEPT !.execution.status = progress_status(status)]
    IN  IF IsSome(status.query_id)
        THEN add_log(
                add_log([a1 EXCEPT !.execution.query_id = status.query_id],
                        <<"Query ID: ", status.query_id[1]>>),
                <<"Check progress at: https://trino.opensky-network.org/ui/query.html?",
                  status.query_id[1]>>)
        ELSE a1

\* The task one progress-callback invocation spawns.
progress_update(a, status) ==
    LET a1 == [a EXCEPT !.execution.status = progress_status(status)]
    IN  IF IsSome(status.query_id) /\ a1.execution.query_id = NoneV
        THEN add_log(
                add_log([a1 EXCEPT !.execution.query_id = status.query_id],
                        <<"Query ID: ", status.query_id[1]>>),
                <<"Check progress at: https://trino.opensky-network.org/ui/query.html?",
                  status.query_id[1]>>)
        ELSE a1

\* handle_result with the Err arm leaving the result unset.
handle_result_error_without_result(a, outcome) ==
    LET a1 ==
          IF outcome.ok
          THEN IF outcome.data.row_count = 0
               THEN [add_log(a, <<"No data found">>) EXCEPT
                        !.execution.status = <<"No data found">>,
                        !.execution.result = Some(NoData("No data found"))]
               ELSE [add_log(a, <<"Retrieved ", outcome.data.row_count, " rows">>) EXCEPT
                        !.execution.status = <<"Complete">>,
                        !.execution.result =
                            Some(Success(outcome.data.row_count, outcome.data.columns)),
                        !.last_result = Some(outcome.data)]
          ELSE [add_log(a, <<"Error: ", outcome.error>>) EXCEPT
                    !.execution.status = <<"Error">>]
    IN  [a1 EXCEPT !.execution.is_executing = FALSE]

\* handle_result with the zero-row result stored as last result too.
handle_result_stores_empty(a, outcome) ==
    LET a1 ==
          IF outcome.ok
          THEN IF outcome.data.row_count = 0
               THEN [add_log(a, <<"No data found">>) EXCEPT
                        !.execution.status = <<"No data found">>,
                        !.execution.result = Some(NoData("No data found")),
                        !.last_result = Some(outcome.data)]
               ELSE [add_log(a, <<"Retrieved ", outcome.data.row_count, " rows">>) EXCEPT
                        !.execution.status = <<"Complete">>,
                        !.execution.result =
                            Some(Success(outcome.data.row_count, outcome.data.columns)),
                        !.last_result = Some(outcome.data)]
          ELSE [add_log(a, <<"Error: ", outcome.error>>) EXCEPT
                    !.execution.status = <<"Error">>,
                    !.execution.result = Some(Error(outcome.error))]
    IN  [a1 EXCEPT !.execution.is_executing = FALSE]

\* handle_result without its last line: is_executing stays set.
handle_result_keeps_executing(a, outcome) ==
    IF outcome.ok
    THEN IF outcome.data.row_count = 0
         THEN [add_log(a, <<"No data found">>) EXCEPT
                  !.execution.status = <<"No data found">>,
                  !.execution.result = Some(NoData("No data found"))]
         ELSE [add_log(a, <<"Retrieved ", outcome.data.row_count, " rows">>) EXCEPT
                  !.execution.status = <<"Complete">>,
                  !.execution.result =
                      Some(Success(outcome.data.row_count, outcome.data.columns)),
                  !.last_result = Some(outcome.data)]
    ELSE [add_log(a, <<"Error: ", outcome.error>>) EXCEPT
              !.execution.status = <<"Error">>,
              !.execution.result = Some(Error(outcome.error))]

\* "Handle result": the terminal write after the engine call returned.
handle_result(a, outcome) ==
    LET a1 ==
          IF outcome.ok
          THEN IF outcome.data.row_count = 0
               THEN [add_log(a, <<"No data found">>) EXCEPT
                        !.execution.status = <<"No data found">>,
                        !.execution.result = Some(NoData("No data found"))]
               ELSE [add_log(a, <<"Retrieved ", outcome.data.row_count, " rows">>) EXCEPT
                        !.execution.status = <<"Complete">>,
                        !.execution.result =
                            Some(Success(outcome.data.row_count, outcome.data.columns)),
                        !.last_result = Some(outcome.data)]
          ELSE [add_log(a, <<"Error: ", outcome.error>>) EXCEPT
                    !.execution.status = <<"Error">>,
                    !.execution.result = Some(Error(outcome.error))]
    IN  [a1 EXCEPT !.execution.is_executing = FALSE]

\* A network call's return touches no shared state, so it is taken together
\* with the lock section that follows it in the same task.

BgLogStart(r) ==
    /\ units[r].pc = "spawned"
    /\ lock = "free"
    /\ app' = log_start_and_sql(app, units[r].params, units[r].query_type)
    /\ units' = [units EXCEPT ![r].pc = "connecting"]
    /\ UNCHANGED <<lock, tasks, cancel, nruns, nprogress, chat>>

\* Trino::new() returns Err(e): the unit writes the error and returns.
BgConnectionError(r) ==
    /\ units[r].pc = "connecting"
    /\ lock = "free"
    /\ \E e \in ConnErrors : app' = connection_error(app, e)
    /\ units' = [units EXCEPT ![r] = DoneUnit]
    /\ UNCHANGED <<lock, tasks, cancel, nruns, nprogress, chat>>

\* The unit reading the shared params and query type again when it issues
\* the engine call.
BgConnected_rereads(r) ==
    /\ units[r].pc = "connecting"
    /\ lock = "free"
    /\ app' = connected(app)
    /\ units' = [units EXCEPT ![r] =
                    [pc |-> "querying", params |-> app.query_params,
                     query_type |-> app.query_type]]
    /\ UNCHANGED <<lock, tasks, cancel, nruns, nprogress, chat>>

\* The engine call a unit issues: history_with_progress,
\* flightlist_with_progress or rawdata_with_progress, by its query type, on
\* its params.
engine_call(unit) ==
    [method |-> CASE unit.query_type = "trajectory" -> "history_with_progress"
                  [] unit.query_type = "flights" -> "flightlist_with_progress"
                  [] unit.query_type = "rawdata" -> "rawdata_with_progress",
     params |-> unit.params]

\* Trino::new() returns Ok: the unit logs it and issues the engine call.
BgConnected(r) ==
    /\ units[r].pc = "connecting"
    /\ lock = "free"
    /\ app' = connected(app)
    /\ units' = [units EXCEPT ![r].pc = "querying"]
    /\ UNCHANGED <<lock, tasks, cancel, nruns, nprogress, chat>>

\* The engine call invokes the progress callback, which spawns a task.
EngineProgress(r, max_progress) ==
    /\ units[r].pc = "querying"
    /\ nprogress < max_progress
    /\ \E status \in QueryStatuses(r) :
        tasks' = tasks \cup {[run |-> r, seq |-> nprogress + 1, status |-> status]}
    /\ nprogress' = nprogress + 1
    /\ UNCHANGED <<app, lock, units, cancel, nruns, chat>>

\* The spawned task takes the lock and applies its update.
ProgressTask(t) ==
    /\ lock = "free"
    /\ app' = progress_update(app, t.status)
    /\ tasks' = tasks \ {t}
    /\ UNCHANGED <<lock, units, cancel, nruns, nprogress, chat>>

\* The engine call (history/flightlist/rawdata _with_progress) returns and
\* the unit makes its terminal write.
BgHandleResult(r) ==
    /\ units[r].pc = "querying"
    /\ lock = "free"
    /\ \E outcome \in EngineOutcomes : app' = handle_result(app, outcome)
    /\ units' = [units EXCEPT ![r] = DoneUnit]
    /\ UNCHANGED <<lock, tasks, cancel, nruns, nprogress, chat>>

execute_query_background(r, max_progress) ==
    \/ BgLogStart(r)
    \/ BgConnectionError(r)
    \/ BgConnected(r)
    \/ EngineProgress(r, max_progress)
    \/ BgHandleResult(r)

\* ------------------------------------------- commands.rs: status polling

\* The JSON get_execution_status makes of an ExecutionResult.
result_json(r) ==
    CASE r.variant = "Success" ->
            [success |-> r.success, row_count |-> r.row_count, columns |-> r.columns]
      [] r.variant = "NoData" -> [error |-> r.error, row_count |-> r.row_count]
      [] r.variant = "Error" -> [error |-> r.error]
      [] r.variant = "Cancelled" -> [cancelled |-> r.cancelled]

\* get_execution_status under the lock: the reply.
get_execution_status_locked(a) ==
    [is_executing |-> a.execution.is_executing,
     status |-> a.execution.status,
     logs |-> a.execution.logs,
     complete |-> IsSome(a.execution.result),
     result |-> IF IsSome(a.execution.result)
                THEN Some(result_json(a.execution.result[1])) ELSE NoneV,
     can_cancel |-> a.execution.is_executing /\ IsSome(a.execution.query_id)]

\* The poll reads under the lock and writes nothing.
get_execution_status ==
    /\ lock = "free"
    /\ get_execution_status_locked(app).is_executing \in BOOLEAN
    /\ UNCHANGED vars

\* ------------------------------------------------ commands.rs: export

\* export_csv under the lock: the data written to the file, or the reply that
\* there is none.  (A failure of to_csv itself is left out.)
export_csv_locked(a) ==
    IF IsSome(a.last_result)
    THEN [success |-> TRUE, written |-> a.last_result[1]]
    ELSE [error |-> "No data to export"]

\* ------------------------------------------------ commands.rs: cancel

NoQueryRunning == [error |-> "No query is running"]
QueryCancelled == [success |-> TRUE, message |-> "Query cancelled"]

\* What trino.cancel() can answer besides Ok.
CancelErrors == {"cancel refused"}

\* The writes every accepted cancel ends with, and its reply.
cancel_finish(a) ==
    LET a1 == [a EXCEPT !.execution.status = <<"Cancelled">>]
        a2 == [a1 EXCEPT !.execution.result = Some(Cancelled)]
    IN  [reply |-> Some(QueryCancelled),
         app |-> [a2 EXCEPT !.execution.is_executing = FALSE],
         cancel |-> CancelIdle]

\* cancel_query with the first log line written above the is_executing check.
cancel_query_logs_first(a) ==
    LET a1 == [add_log(a, <<"Cancellation requested...">>)
                    EXCEPT !.execution.status = <<"Cancelling...">>]
        query_id == a1.execution.query_id
    IN  IF ~a.execution.is_executing
        THEN [reply |-> Some(NoQueryRunning),
              app |-> add_log(a, <<"Cancellation requested...">>),
              cancel |-> CancelIdle]
        ELSE IF IsSome(query_id)
        THEN [reply |-> NoneV,
              app |-> add_log(a1, <<"Cancelling Trino query ", query_id[1], "...">>),
              cancel |-> [pc |-> "trino_new", qid |-> query_id]]
        ELSE cancel_finish(a1)

\* cancel_query connecting to the engine whether or not it has a query id.
cancel_query_always_connects(a) ==
    IF ~a.execution.is_executing
    THEN [reply |-> Some(NoQueryRunning), app |-> a, cancel |-> CancelIdle]
    ELSE LET a1 == [add_log(a, <<"Cancellation requested...">>)
                        EXCEPT !.execution.status = <<"Cancelling...">>]
         IN  [reply |-> NoneV, app |-> a1,
              cancel |-> [pc |-> "trino_new", qid |-> a1.execution.query_id]]

\* cancel_query from the lock to its first await or its return: the reply (if
\* it returns), the state it leaves, and the await it stops at.
cancel_query_locked(a) ==
    IF ~a.execution.is_executing
    THEN [reply |-> Some(NoQueryRunning), app |-> a, cancel |-> CancelIdle]
    ELSE LET a1 == [add_log(a, <<"Cancellation requested...">>)
                        EXCEPT !.execution.status = <<"Cancelling...">>]
             query_id == a1.execution.query_id
         IN  IF IsSome(query_id)
             THEN [reply |-> NoneV,
                   app |-> add_log(a1, <<"Cancelling Trino query ", query_id[1], "...">>),
                   cancel |-> [pc |-> "trino_new", qid |-> query_id]]
             ELSE cancel_finish(a1)

\* cancel_query returning the connection error instead of finishing.
cancel_query_trino_new_gives_up(a, c, answer) ==
    IF answer.ok
    THEN [reply |-> NoneV, app |-> a, cancel |-> [c EXCEPT !.pc = "trino_cancel"]]
    ELSE [reply |-> Some([error |-> answer.error]),
          app |-> add_log(a, <<"Connection error: ", answer.error>>),
          cancel |-> CancelIdle]

\* cancel_query after Trino::new() returned.
cancel_query_trino_new(a, c, answer) ==
    IF answer.ok
    THEN [reply |-> NoneV, app |-> a, cancel |-> [c EXCEPT !.pc = "trino_cancel"]]
    ELSE cancel_finish(add_log(a, <<"Connection error: ", answer.error>>))

\* cancel_query after trino.cancel(&qid) returned.
cancel_query_trino_cancel(a, answer) ==
    IF answer.ok
    THEN cancel_finish(add_log(a, <<"Trino query cancelled">>))
    ELSE cancel_finish(add_log(a, <<"Cancel error: ", answer.error>>))

Answers(errors) == {[ok |-> TRUE]} \cup {[ok |-> FALSE, error |-> e] : e \in errors}

\* The guard is held exactly while cancel_query waits at an await.
LockOf(c) == IF c.pc = "idle" THEN "free" ELSE "cancel_query"

CancelLock ==
    /\ lock = "free"
    /\ LET out == cancel_query_locked(app) IN
        /\ app' = out.app
        /\ cancel' = out.cancel
        /\ lock' = LockOf(out.cancel)
    /\ UNCHANGED <<units, tasks, nruns, nprogress, chat>>

\* Trino::new().await returns to cancel_query, which still holds the lock.
CancelTrinoNew ==
    /\ cancel.pc = "trino_new"
    /\ \E answer \in Answers(ConnErrors) :
        LET out == cancel_query_trino_new(app, cancel, answer) IN
        /\ app' = out.app
        /\ cancel' = out.cancel
        /\ lock' = LockOf(out.cancel)
    /\ UNCHANGED <<units, tasks, nruns, nprogress, chat>>

\* trino.cancel(&qid).await returns.
CancelTrinoCancel ==
    /\ cancel.pc = "trino_cancel"
    /\ \E answer \in Answers(CancelErrors) :
        LET out == cancel_query_trino_cancel(app, answer) IN
        /\ app' = out.app
        /\ cancel' = out.cancel
        /\ lock' = LockOf(out.cancel)
    /\ UNCHANGED <<units, tasks, nruns, nprogress, chat>>

cancel_query ==
    \/ CancelLock
    \/ CancelTrinoNew
    \/ CancelTrinoCancel

\* -------------------------------------------------- commands.rs: query type

set_query_type_locked(a, query_type) ==
    IF query_type \in {"trajectory", "flights", "rawdata"}
    THEN [reply |-> [query_type |-> query_type],
          app |-> [a EXCEPT !.query_type = query_type]]
    ELSE [reply |-> [err |-> <<"Unknown query type: ", query_type>>], app |-> a]

set_query_type ==
    /\ lock = "free"
    /\ \E query_type \in QueryTypeNames :
        app' = set_query_type_locked(app, query_type).app
    /\ UNCHANGED <<lock, units, tasks, cancel, nruns, nprogress, chat>>

\* -------------------------------------------------------- commands.rs: chat

clear_messages ==
    /\ lock = "free"
    /\ app' = clear_messages_locked(app)
    /\ UNCHANGED <<lock, units, tasks, cancel, nruns, nprogress, chat>>

\* LlmConfig::is_configured
is_configured(config) ==
    CASE config.provider = "groq" -> IsSome(config.groq_api_key)
      [] config.provider = "openai" -> IsSome(config.openai_api_key)
      [] config.provider = "ollama" -> TRUE
      [] OTHER -> FALSE

\* AppState::add_message_with_hint: the message carries the hint.
add_message_with_hint(a, role, content, msg_type, hint) ==
    [a EXCEPT !.messages =
        Append(@, [role |-> role, content |-> content, msg_type |-> msg_type,
                   hint |-> hint])]

method_name(query_type) ==
    CASE query_type = "trajectory" -> "history"
      [] query_type = "flights" -> "flightlist"
      [] query_type = "rawdata" -> "rawdata"

\* opensky::build_query_preview_method(&params, method_name): the text names
\* the method and the parameters.
build_query_preview_method(params, method) == <<"trino.", method, params>>

\* send_message's lock section when the LLM is not configured.
send_message_not_configured(a) ==
    LET a1 == add_message(a, "assistant",
                <<"LLM not configured. Please add your API key in Settings.">>,
                "error")
    IN  [reply |-> [messages |-> a1.messages], app |-> a1]

\* send_message's lock section for a provider other than groq.
send_message_unsupported(a, config) ==
    LET a1 == add_message(a, "assistant",
                <<"Provider '", config.provider, "' not yet supported. Use Groq for now.">>,
                "error")
    IN  [reply |-> [messages |-> a1.messages], app |-> a1]

\* send_message whose Ok arm also stores the parsed query type as the shared
\* one.
send_message_parsed_sets_query_type(a, config, outcome) ==
    IF outcome.ok
    THEN LET a1 == [a EXCEPT !.query_params = outcome.params,
                             !.query_type = outcome.query_type]
             preview == build_query_preview_method(outcome.params,
                                                   method_name(outcome.query_type))
             a2 == add_message_with_hint(a1, "assistant", preview, "code", outcome.hint)
             a3 == [a2 EXCEPT !.agent_configured = TRUE,
                              !.provider_name = config.provider,
                              !.model_name = config.groq_model]
         IN  [reply |-> [messages |-> a3.messages,
                         query_type |-> outcome.query_type,
                         hint |-> outcome.hint,
                         params |-> [k \in DOMAIN outcome.params \ {"bounds"} |->
                                        outcome.params[k]]],
              app |-> a3]
    ELSE LET a1 == add_message(a, "assistant",
                    <<"Sorry, I couldn't understand that query: ", display(outcome.error)>>,
                    "error")
         IN  [reply |-> [messages |-> a1.messages], app |-> a1]

\* send_message whose Err arm also empties the shared params.
send_message_parsed_resets_params(a, config, outcome) ==
    IF outcome.ok
    THEN LET a1 == [a EXCEPT !.query_params = outcome.params]
             preview == build_query_preview_method(outcome.params,
                                                   method_name(outcome.query_type))
             a2 == add_message_with_hint(a1, "assistant", preview, "code", outcome.hint)
             a3 == [a2 EXCEPT !.agent_configured = TRUE,
                              !.provider_name = config.provider,
                              !.model_name = config.groq_model]
         IN  [reply |-> [messages |-> a3.messages,
                         query_type |-> outcome.query_type,
                         hint |-> outcome.hint,
                         params |-> [k \in DOMAIN outcome.params \ {"bounds"} |->
                                        outcome.params[k]]],
              app |-> a3]
    ELSE LET a1 == add_message([a EXCEPT !.query_params = NewQueryParams], "assistant",
                    <<"Sorry, I couldn't understand that query: ", display(outcome.error)>>,
                    "error")
         IN  [reply |-> [messages |-> a1.messages], app |-> a1]

\* send_message's lock section after parse_query returned: the Ok arm and the
\* Err arm.
send_message_parsed(a, config, outcome) ==
    IF outcome.ok
    THEN LET a1 == [a EXCEPT !.query_params = outcome.params]
             preview == build_query_preview_method(outcome.params,
                                                   method_name(outcome.query_type))
             a2 == add_message_with_hint(a1, "assistant", preview, "code", outcome.hint)
             a3 == [a2 EXCEPT !.agent_configured = TRUE,
                              !.provider_name = config.provider,
                              !.model_name = config.groq_model]
         IN  [reply |-> [messages |-> a3.messages,
                         query_type |-> outcome.query_type,
                         hint |-> outcome.hint,
                         params |-> [k \in DOMAIN outcome.params \ {"bounds"} |->
                                        outcome.params[k]]],
              app |-> a3]
    ELSE LET a1 == add_message(a, "assistant",
                    <<"Sorry, I couldn't understand that query: ", display(outcome.error)>>,
                    "error")
         IN  [reply |-> [messages |-> a1.messages], app |-> a1]

\* First lock section: the user's message; then the configuration is loaded.
SendAddUser(max_chats) ==
    /\ chat.pc = "idle"
    /\ chat.n < max_chats
    /\ lock = "free"
    /\ \E user_message \in UserMessages, config \in LlmConfigs :
        /\ app' = add_message(app, "user", user_message, "text")
        /\ chat' = [pc |-> "loaded", n |-> chat.n + 1, user_message |-> user_message,
                    config |-> config, requests |-> 0, answer |-> NoneV,
                    outcome |-> NoneV]
    /\ UNCHANGED <<lock, units, tasks, cancel, nruns, nprogress>>

SendNotConfigured ==
    /\ chat.pc = "loaded"
    /\ ~is_configured(chat.config)
    /\ lock = "free"
    /\ app' = send_message_not_configured(app).app
    /\ chat' = ChatIdle(chat.n)
    /\ UNCHANGED <<lock, units, tasks, cancel, nruns, nprogress>>

SendUnsupported ==
    /\ chat.pc = "loaded"
    /\ is_configured(chat.config)
    /\ chat.config.provider # "groq"
    /\ lock = "free"
    /\ app' = send_message_unsupported(app, chat.config).app
    /\ chat' = ChatIdle(chat.n)
    /\ UNCHANGED <<lock, units, tasks, cancel, nruns, nprogress>>

\* agent.parse_query: client.complete posts the one request and awaits.
SendRequest ==
    /\ chat.pc = "loaded"
    /\ is_configured(chat.config)
    /\ chat.config.provider = "groq"
    /\ chat' = [chat EXCEPT !.pc = "llm", !.requests = @ + 1]
    /\ UNCHANGED <<app, lock, units, tasks, cancel, nruns, nprogress>>

\* parse_query posting the request once more when the first attempt failed.
SendLlmReturn_retries(answers) ==
    /\ chat.pc = "llm"
    /\ \E answer \in answers :
        chat' = IF ~parse_query(answer).ok /\ chat.requests < 2
                THEN [chat EXCEPT !.requests = @ + 1]
                ELSE [chat EXCEPT !.pc = "returned", !.answer = Some(answer),
                                  !.outcome = Some(parse_query(answer))]
    /\ UNCHANGED <<app, lock, units, tasks, cancel, nruns, nprogress>>

\* The request is answered and parse_query returns to send_message.
SendLlmReturn(answers) ==
    /\ chat.pc = "llm"
    /\ \E answer \in answers :
        chat' = [chat EXCEPT !.pc = "returned", !.answer = Some(answer),
                             !.outcome = Some(parse_query(answer))]
    /\ UNCHANGED <<app, lock, units, tasks, cancel, nruns, nprogress>>

\* Last lock section: the Ok arm or the Err arm.
SendParsed ==
    /\ chat.pc = "returned"
    /\ lock = "free"
    /\ app' = send_message_parsed(app, chat.config, chat.outcome[1]).app
    /\ chat' = ChatIdle(chat.n)
    /\ UNCHANGED <<lock, units, tasks, cancel, nruns, nprogress>>

send_message(max_chats, answers) ==
    \/ SendAddUser(max_chats)
    \/ SendNotConfigured
    \/ SendUnsupported
    \/ SendRequest
    \/ SendLlmReturn(answers)
    \/ SendParsed

\* ------------------------------------------------------- specification

\* The commands the front end may invoke at any time, and the spawned tasks.
Step(max_runs, max_progress) ==
    \/ set_query_param
    \/ clear_query_params
    \/ execute_query_async(max_runs)
    \/ cancel_query
    \/ get_execution_status
    \/ \E r \in Runs : execute_query_background(r, max_progress)
    \/ \E t \in tasks : ProgressTask(t)

Next == Step(MaxRuns, MaxProgress)

Spec == Init /\ [][Next]_vars

NextRestart == Step(MaxRuns + 1, MaxProgress + 1)

SpecRestart == Init /\ [][NextRestart]_vars

\* The runtime schedules every spawned task that can take a step, the lock is
\* handed to every task that waits for it, and every remote call returns:
\* Trino::new() and the engine call of a unit, Trino::new() and trino.cancel()
\* of cancel_query.  The front end need not call anything, and the engine
\* need not report progress.
Fairness ==
    /\ \A r \in Runs :
        /\ WF_vars(BgLogStart(r))
        /\ WF_vars(BgConnectionError(r) \/ BgConnected(r))
        /\ WF_vars(BgHandleResult(r))
    /\ WF_vars(\E t \in tasks : ProgressTask(t))
    /\ WF_vars(CancelTrinoNew)
    /\ WF_vars(CancelTrinoCancel)

SpecLive == Init /\ [][Next]_vars /\ Fairness

\* Two runs, one after the other or the second started after a cancel of the
\* first.
NextRerun == Step(2, MaxProgress)

SpecRerun == Init /\ [][NextRerun]_vars

\* A single run whose engine call invokes the progress callback once more.
NextProgress == Step(1, MaxProgress + 1)

SpecProgress == Init /\ [][NextProgress]_vars

\* The chat alone: send_message with every answer of the model, and
\* clear_messages.
NextAgent ==
    \/ send_message(MaxChats, LlmAnswers)
    \/ clear_messages

SpecAgent == Init /\ [][NextAgent]_vars

\* The chat with the answers that try the extraction: bounds arrays, objects
\* embedded in prose, objects with missing and unknown members, nested
\* objects, and failed requests.
NextExtract ==
    \/ send_message(MaxChats, ShapedAnswers)
    \/ clear_messages

SpecExtract == Init /\ [][NextExtract]_vars

\* Runs without progress callbacks and without cancel, next to everything
\* that changes the shared params and query type: set_query_param,
\* clear_query_params, set_query_type and send_message.
NextParams ==
    \/ set_query_param
    \/ clear_query_params
    \/ set_query_type
    \/ execute_query_async(MaxRuns)
    \/ \E r \in Runs :
         \/ BgLogStart(r)
         \/ BgConnectionError(r)
         \/ BgConnected(r)
         \/ BgHandleResult(r)
    \/ send_message(MaxChats, FewAnswers)

SpecParams == Init /\ [][NextParams]_vars

\* ---------------------------------------------------------------- claims
\* A claim about what a handler does in a given state is stated on the
\* handler's operator (execute_query_async_locked, cancel_query_locked, ...,
\* handle_result) in every reachable state: the actions apply exactly these
\* operators, so it holds of every such step.

Exec == app.execution
LastLog == Exec.logs[Len(Exec.logs)]
\* The step is an accepted start (the reset of a new run).
StartAccepted == nruns' = nruns + 1
\* Unit r or one of its progress-callback tasks takes the step.
StepOfRun(r) ==
    \/ units'[r] # units[r] /\ units[r].pc # "none"
    \/ \E t \in tasks \ tasks' : t.run = r
LiveUnits == {r \in Runs : units[r].pc \notin {"none", "done"}}

\* C1: once cancel has set result Cancelled and status "Cancelled", both stay
\* so in every step that is not the next accepted start.
C1_CancelledStays ==
    [][(/\ Exec.result = Some(Cancelled)
        /\ Exec.status = <<"Cancelled">>
        /\ ~StartAccepted)
       => /\ Exec'.result = Some(Cancelled)
          /\ Exec'.status = <<"Cancelled">>]_vars

\* C2: no step of an earlier run's background unit or progress task changes
\* ExecutionState once a later run has been started.
C2_NoStaleWrite ==
    [][\A r \in Runs : (r < nruns /\ StepOfRun(r)) => Exec' = Exec]_vars

\* C3: with the lock released, a result is set only when not executing and,
\* after the first accepted start, not executing implies a result is set.
C3_ResultIffNotExecuting ==
    lock = "free" =>
        /\ IsSome(Exec.result) => ~Exec.is_executing
        /\ (nruns >= 1 /\ ~Exec.is_executing) => IsSome(Exec.result)

C3_Witness ==
    /\ lock = "free"
    /\ ~Exec.is_executing
    /\ IsSome(Exec.result)
    /\ Exec.result[1].variant = "Error"
    /\ LiveUnits = {}

\* C4 as stated: a start while executing is answered "already running" and
\* changes nothing and spawns nothing.
C4_RejectedAlreadyRunning ==
    (lock = "free" /\ Exec.is_executing) =>
        execute_query_async_locked(app) =
            [reply |-> AlreadyRunning, app |-> app, spawn |-> FALSE]

\* C4 amended: a start while executing is rejected, changes nothing and spawns
\* nothing; the reply is "already running" when a start time is set and
\* "start time is required" when none is, that check being made first.
C4_RejectedUnchanged ==
    (lock = "free" /\ Exec.is_executing) =>
        execute_query_async_locked(app) =
            [reply |-> IF IsSome(app.query_params.start)
                       THEN AlreadyRunning ELSE StartRequired,
             app |-> app, spawn |-> FALSE]

C4_Witness ==
    /\ lock = "free"
    /\ Exec.is_executing
    /\ IsSome(app.query_params.start)
    /\ IsSome(Exec.query_id)

\* C5: a cancel while not executing is answered "no query is running", leaves
\* the state as it is and stops at no remote call.
C5_CancelNotRunning ==
    (lock = "free" /\ ~Exec.is_executing) =>
        cancel_query_locked(app) =
            [reply |-> Some(NoQueryRunning), app |-> app, cancel |-> CancelIdle]

C5_Witness ==
    /\ lock = "free"
    /\ ~Exec.is_executing
    /\ Exec.result = Some(Cancelled)
    /\ Exec.logs # <<>>

\* C6: at most one background unit is live, and is_executing turns true only
\* in an accepted start.
C6_OneLiveUnit ==
    [][/\ Cardinality(LiveUnits') <= 1
       /\ (~Exec.is_executing /\ Exec'.is_executing) => StartAccepted]_vars

\* C7: once a background unit has made its terminal write and returned,
\* ExecutionState does not change until the next accepted start: not under the
\* progress-callback tasks that are still to be applied either.  (The claim
\* also covers a Cancelled result and units still live, which C1 is about.)
C7_FrozenAfterResult ==
    [][(/\ IsSome(Exec.result)
        /\ Exec.result # Some(Cancelled)
        /\ LiveUnits = {}
        /\ ~StartAccepted)
       => Exec' = Exec]_vars

\* C8: a cancel of an executing run without a query id ends, in its one lock
\* section, with result Cancelled and is_executing false, and stops at no
\* remote call (no connection, no cancel request).
C8_CancelWithoutHandle ==
    (lock = "free" /\ Exec.is_executing /\ Exec.query_id = NoneV) =>
        LET out == cancel_query_locked(app) IN
        /\ out.cancel = CancelIdle
        /\ out.reply = Some(QueryCancelled)
        /\ out.app.execution.result = Some(Cancelled)
        /\ ~out.app.execution.is_executing

C8_Witness ==
    /\ Exec.result = Some(Cancelled)
    /\ ~Exec.is_executing
    /\ Exec.logs # <<>>
    /\ LastLog = <<"Cancellation requested...">>
    /\ lock = "free"

\* What an accepted cancel leaves, whatever the remote step answered.
CancelEnds(out, line) ==
    /\ out.reply = Some(QueryCancelled)
    /\ out.cancel = CancelIdle
    /\ out.app.execution.logs = Append(Exec.logs, line)
    /\ out.app.execution.result = Some(Cancelled)
    /\ out.app.execution.status = <<"Cancelled">>
    /\ ~out.app.execution.is_executing

\* C9: a cancel of an executing run with a query id opens a connection and
\* asks the engine to cancel that id; a failed connection, a failed cancel
\* and a successful cancel each append their log line, and each ends with
\* result Cancelled, status "Cancelled", is_executing false and the success
\* reply.
C9_CancelWithHandle ==
    /\ (lock = "free" /\ Exec.is_executing /\ IsSome(Exec.query_id)) =>
        cancel_query_locked(app).cancel = [pc |-> "trino_new", qid |-> Exec.query_id]
    /\ cancel.pc = "trino_new" =>
        /\ cancel.qid = Exec.query_id
        /\ cancel_query_trino_new(app, cancel, [ok |-> TRUE]).cancel =
                [pc |-> "trino_cancel", qid |-> Exec.query_id]
        /\ \A e \in ConnErrors :
            CancelEnds(cancel_query_trino_new(app, cancel, [ok |-> FALSE, error |-> e]),
                       <<"Connection error: ", e>>)
    /\ cancel.pc = "trino_cancel" =>
        /\ cancel.qid = Exec.query_id
        /\ CancelEnds(cancel_query_trino_cancel(app, [ok |-> TRUE]),
                      <<"Trino query cancelled">>)
        /\ \A e \in CancelErrors :
            CancelEnds(cancel_query_trino_cancel(app, [ok |-> FALSE, error |-> e]),
                       <<"Cancel error: ", e>>)

C9_Witness ==
    /\ lock = "free"
    /\ Exec.result = Some(Cancelled)
    /\ Exec.status = <<"Cancelled">>
    /\ ~Exec.is_executing
    /\ Exec.logs # <<>>
    /\ LastLog = <<"Cancel error: ", "cancel refused">>

\* C10: the terminal write follows the engine call's outcome: zero rows give
\* NoData with row_count 0 and status "No data found" and leave last result;
\* n >= 1 rows give Success with n and the engine's columns and set last
\* result to the data; an error gives Error with its message and status
\* "Error" and leaves last result.
C10_ResultFollowsOutcome ==
    (\E r \in Runs : units[r].pc = "querying") =>
        \A outcome \in EngineOutcomes :
            LET out == handle_result(app, outcome) IN
            /\ ~out.execution.is_executing
            /\ IF ~outcome.ok
               THEN /\ out.execution.result = Some(Error(outcome.error))
                    /\ out.execution.status = <<"Error">>
                    /\ out.last_result = app.last_result
               ELSE IF outcome.data.row_count = 0
               THEN /\ out.execution.result =
                            Some([variant |-> "NoData", error |-> "No data found",
                                  row_count |-> 0])
                    /\ out.execution.status = <<"No data found">>
                    /\ out.last_result = app.last_result
               ELSE /\ out.execution.result =
                            Some([variant |-> "Success", success |-> TRUE,
                                  row_count |-> outcome.data.row_count,
                                  columns |-> outcome.data.columns])
                    /\ out.execution.status = <<"Complete">>
                    /\ out.last_result = Some(outcome.data)

C10_Witness ==
    /\ Exec.result = Some(Success(2, Columns2))
    /\ Exec.status = <<"Complete">>
    /\ app.last_result = Some([row_count |-> 2, columns |-> Columns2])
    /\ ~Exec.is_executing
    /\ LiveUnits = {}

\* C11: when the unit's connection fails, the unit's step writes the log line
\* and result Error with the connection error, status "Error" and
\* is_executing false, and the unit returns from "connecting" without ever
\* being at the engine call: a returned unit stays returned, a progress
\* callback is invoked for a run only while its unit is at the engine call,
\* and no step the unit takes before the engine call writes the status
\* "Executing query...".
C11_ConnectionFailure ==
    [][\A r \in Runs :
        /\ (units[r].pc = "connecting" /\ units'[r].pc = "done") =>
              /\ \E e \in ConnErrors :
                    /\ Exec'.result = Some(Error(e))
                    /\ Exec'.logs = Append(Exec.logs, <<"Connection error: ", e>>)
              /\ ~Exec'.is_executing
              /\ Exec'.status = <<"Error">>
              /\ tasks' = tasks
              /\ nprogress' = nprogress
        /\ units[r].pc = "done" => units'[r].pc = "done"
        /\ (\E t \in tasks' \ tasks : t.run = r) => units[r].pc = "querying"
        /\ (/\ units[r].pc \in {"spawned", "connecting"}
            /\ units'[r] # units[r]
            /\ units'[r].pc # "querying")
              => Exec'.status \in {Exec.status, <<"Error">>}
      ]_vars

C11_Witness ==
    /\ Exec.result = Some(Error("connection refused"))
    /\ Exec.status = <<"Error">>
    /\ ~Exec.is_executing
    /\ LastLog = <<"Connection error: ", "connection refused">>
    /\ units[1].pc = "done"
    /\ nprogress = 0

\* The two lines a progress-callback task logs when it records the handle.
IsHandleLine(line) == line[1] \in {"Query ID: ", "Check progress at: https://trino.opensky-network.org/ui/query.html?"}
\* The line the background unit logs with its terminal write.
IsTerminalLine(line) ==
    line = <<"No data found">> \/ line[1] \in {"Retrieved ", "Error: "}

\* C12: the logs of a run begin with the start line, and every handle line
\* a progress callback wrote comes before the unit's terminal line.
C12_LogOrder ==
    /\ Exec.logs # <<>> => Exec.logs[1] = <<"Starting query execution">>
    /\ \A i, j \in 1..Len(Exec.logs) :
        (IsTerminalLine(Exec.logs[i]) /\ IsHandleLine(Exec.logs[j])) => j < i

\* The "Query ID: " lines in the logs.
HandleLogs == {i \in 1..Len(Exec.logs) : Exec.logs[i][1] = "Query ID: "}

\* C13: the logs hold one "Query ID: " line when a query id is recorded and
\* none otherwise; a recorded query id changes in no step but an accepted
\* start; a progress task applied when a query id is recorded changes neither
\* the query id nor the logs, whether it carries the same handle, another
\* one or none.
C13_HandleOnce ==
    /\ [](/\ Cardinality(HandleLogs) = IF IsSome(Exec.query_id) THEN 1 ELSE 0
          /\ IsSome(Exec.query_id) =>
                \A r \in Runs : \A status \in QueryStatuses(r) :
                    LET out == progress_update(app, status).execution IN
                    /\ out.query_id = Exec.query_id
                    /\ out.logs = Exec.logs)
    /\ [][IsSome(Exec.query_id) =>
            /\ ~StartAccepted => Exec'.query_id = Exec.query_id
            /\ tasks' # tasks /\ nprogress' = nprogress => Exec'.logs = Exec.logs
         ]_vars

\* The handle is recorded and logged, and a second update that carries a
\* handle is to be applied.
C13_Witness ==
    /\ lock = "free"
    /\ nprogress = 2
    /\ Exec.query_id = Some(Handle(1))
    /\ Cardinality(HandleLogs) = 1
    /\ \E t \in tasks : IsSome(t.status.query_id)

\* The unit of the run in progress has not yet connected to the engine.
Connecting == nruns >= 1 /\ units[nruns].pc \in {"spawned", "connecting"}

\* C14: the poll reports can_cancel only when is_executing is set and a
\* query id is recorded, and never while the run in progress is connecting
\* nor when is_executing is clear.
C14_CanCancel ==
    lock = "free" =>
        LET reply == get_execution_status_locked(app) IN
        /\ reply.can_cancel => (Exec.is_executing /\ IsSome(Exec.query_id))
        /\ (Exec.is_executing /\ Connecting) => ~reply.can_cancel
        /\ ~Exec.is_executing => ~reply.can_cancel

\* ExecutionState as an accepted start leaves it.
StartedExecution ==
    [is_executing |-> TRUE,
     status |-> <<"Connecting to OpenSky...">>,
     logs |-> << <<"Starting query execution">> >>,
     query_id |-> NoneV,
     result |-> NoneV]

\* C15: a start with a start time set and no run executing is answered
\* "started", spawns a unit and leaves ExecutionState executing, with the
\* connecting status, no query id, no result and the start line as its only
\* log line, whatever the logs held before; the step that accepts a start
\* spawns exactly one unit, which owns the shared params and query type, and
\* ends with the lock released and no remote call of the handler pending.
C15_StartAccepted ==
    /\ []((lock = "free" /\ IsSome(app.query_params.start) /\ ~Exec.is_executing) =>
            execute_query_async_locked(app) =
                [reply |-> Started,
                 app |-> [app EXCEPT !.execution = StartedExecution],
                 spawn |-> TRUE])
    /\ [][StartAccepted =>
            /\ app' = [app EXCEPT !.execution = StartedExecution]
            /\ units' = [units EXCEPT ![nruns + 1] =
                            [pc |-> "spawned",
                             params |-> app.query_params,
                             query_type |-> app.query_type]]
            /\ units[nruns + 1] = NoUnit
            /\ lock' = "free"
            /\ cancel' = CancelIdle
            /\ tasks' = tasks
         ]_vars

C15_Witness ==
    /\ Exec = StartedExecution
    /\ nruns = 1
    /\ units[1].pc = "spawned"
    /\ units[1].params = app.query_params
    /\ lock = "free"

\* C16: while cancel_query waits for its connection or for its cancel request
\* the lock is free, so that the poll, the progress tasks and the unit's
\* terminal write can take it.
C16_NoLockAcrossNetwork ==
    cancel.pc \in {"trino_new", "trino_cancel"} => lock = "free"

IsPrefix(s, t) == Len(s) <= Len(t) /\ SubSeq(t, 1, Len(s)) = s

\* C17: in every step that is not an accepted start, the logs before the
\* step are a prefix of the logs after it.
C17_LogsAppendOnly ==
    [][~StartAccepted => IsPrefix(Exec.logs, Exec'.logs)]_vars

\* Logs that the start, the unit, a progress task and cancel have written to.
C17_Witness ==
    /\ Len(Exec.logs) >= 10
    /\ HandleLogs # {}
    /\ LastLog = <<"Trino query cancelled">>

\* The members of the object in the model's answer that send_message waits
\* to apply, and the values the model supplied for a key.
AnswerMembers ==
    LET response == chat.answer[1].response
    IN  {response[i] : i \in {i \in 1..Len(response) : response[i].t = "member"}}
Supplied(key) == {m.v : m \in {m \in AnswerMembers : m.k = key}}
SuppliedOr(key, default) ==
    IF Supplied(key) = {} THEN default
    ELSE LET v == CHOOSE v \in Supplied(key) : TRUE
         IN  IF v.json = "int" THEN v.n ELSE v.s
\* parse_query has returned for an answer that holds an object.
Answered ==
    /\ chat.pc = "returned"
    /\ chat.answer[1].ok
    /\ AnswerMembers # {}
LastMessage == app.messages[Len(app.messages)]

\* C19: for an object with status "unclear" parse returns the Parse error
\* "Query unclear: " followed by the supplied reason, or by "Query not clear"
\* when none is supplied, whatever other fields the object has; it returns no
\* ParsedQuery.
C19_UnclearFails ==
    (Answered /\ Supplied("status") = {JStr("unclear")}) =>
        chat.outcome[1] =
            [ok |-> FALSE,
             error |-> [kind |-> "Parse",
                        msg |-> <<"Query unclear: ",
                                  SuppliedOr("reason", "Query not clear")>>]]

\* send_message has reported an unclear query with the model's reason.
C19_Witness ==
    /\ chat.pc = "idle"
    /\ Len(app.messages) = 2
    /\ LastMessage =
            ChatMessage("assistant",
                <<"Sorry, I couldn't understand that query: ",
                  <<"Parse error: ", <<"Query unclear: ", "ambiguous airport">> >> >>,
                "error")
    /\ app.query_params = NewQueryParams

C18_RunUsesClone ==
    [][\A r \in Runs :
        /\ (units[r].pc = "none" /\ units'[r].pc # "none") =>
              /\ units'[r].params = app.query_params
              /\ units'[r].query_type = app.query_type
        /\ (units[r].pc \notin {"none", "done"} /\ units'[r].pc # "done") =>
              /\ units'[r].params = units[r].params
              /\ units'[r].query_type = units[r].query_type
        /\ (units[r].pc = "connecting" /\ units'[r].pc = "querying") =>
              engine_call(units'[r]) = engine_call(units[r])
      ]_vars

\* A run is at its engine call with the params and the query type of its
\* start, after a parse has replaced the shared params and set_query_type
\* the shared query type.
C18_Witness ==
    /\ units[1].pc = "querying"
    /\ engine_call(units[1]) =
            [method |-> "flightlist_with_progress",
             params |-> [NewQueryParams EXCEPT !.start = Some("2024-01-01 00:00:00")]]
    /\ app.query_params.start = Some("2024-02-02 00:00:00")
    /\ app.query_type = "rawdata"

\* parse_query has returned for a response that is one flat object and nothing
\* else.
FlatAnswer ==
    /\ chat.pc = "returned"
    /\ chat.answer[1].ok
    /\ LET response == chat.answer[1].response
       IN  /\ Len(response) >= 2
           /\ response[1] = LBrace
           /\ response[Len(response)] = RBrace
           /\ \A i \in 2..(Len(response) - 1) : response[i].t = "member"
\* A JSON number as the f64 it denotes, in tenths.
Tenths(number) == IF number.json = "int" THEN 10 * number.n ELSE number.tenths
IsNumberArray(value) ==
    /\ value.json = "array"
    /\ \A i \in 1..Len(value.items) : value.items[i].json \in {"int", "float"}

\* C21: for a flat object whose status is not "unclear" and whose bounds member
\* is an array of numbers, parse succeeds; when the array has exactly four
\* numbers a, b, c, d the parsed params have bounds with west = a, south = b,
\* east = c, north = d, and when it has any other length they have no bounds.
C21_BoundsArray ==
    (/\ FlatAnswer
     /\ Supplied("status") \cap {JStr("unclear")} = {}
     /\ \E b \in Supplied("bounds") : IsNumberArray(b)) =>
        LET b == (CHOOSE b \in Supplied("bounds") : TRUE).items
            out == chat.outcome[1]
        IN  /\ out.ok
            /\ out.params.bounds =
                    IF Len(b) = 4
                    THEN Some([west |-> Tenths(b[1]), south |-> Tenths(b[2]),
                               east |-> Tenths(b[3]), north |-> Tenths(b[4])])
                    ELSE NoneV

\* send_message has applied the object {"status":"ok","bounds":[1,2,3,4]}: the
\* shared params have the rectangle west 1, south 2, east 3, north 4.
C21_Witness ==
    /\ chat.pc = "idle"
    /\ Len(app.messages) = 2
    /\ LastMessage.msg_type = "code"
    /\ app.query_params =
            [NewQueryParams EXCEPT
                !.bounds = Some([west |-> 10, south |-> 20, east |-> 30, north |-> 40])]

\* parse_query has returned for a response of the model.
Returned == chat.pc = "returned" /\ chat.answer[1].ok
Response == chat.answer[1].response
\* The places <<i, j>> of the substrings of a text that start with an opening
\* brace, end with a closing brace and hold no other brace.
FlatPairs(text) ==
    {p \in (1..Len(text)) \X (1..Len(text)) :
        /\ p[1] < p[2]
        /\ text[p[1]] = LBrace
        /\ text[p[2]] = RBrace
        /\ \A k \in (p[1] + 1)..(p[2] - 1) : text[k].t \notin {"{", "}"}}
Leftmost(pairs) == CHOOSE p \in pairs : \A q \in pairs : p[1] <= q[1]
\* The response is prose, one flat object, prose.
ProseObjectProse ==
    /\ Len(Response) >= 4
    /\ Response[1].t = "text"
    /\ Response[2] = LBrace
    /\ \A i \in 3..(Len(Response) - 2) : Response[i].t = "member"
    /\ Response[Len(Response) - 1] = RBrace
    /\ Response[Len(Response)].t = "text"

\* C22: the text parse extracts from a response is its leftmost substring that
\* starts with an opening brace, ends with a closing brace and holds no other
\* brace, and parse returns what it returns for that text alone; a response
\* without such a substring gives the Parse error "No JSON object found in
\* response"; from prose, one flat object, prose the extracted text is that
\* object, and parse succeeds when the object has a status other than
\* "unclear".
C22_LeftmostFlatPair ==
    Returned =>
        LET pairs == FlatPairs(Response)
            p == Leftmost(pairs)
            out == chat.outcome[1]
        IN  /\ pairs = {} =>
                /\ find_json(Response) = NoneV
                /\ out = [ok |-> FALSE,
                          error |-> [kind |-> "Parse",
                                     msg |-> <<"No JSON object found in response">>]]
            /\ pairs # {} =>
                /\ find_json(Response) = Some(SubSeq(Response, p[1], p[2]))
                /\ out = extract_params(SubSeq(Response, p[1], p[2]))
            /\ ProseObjectProse =>
                /\ find_json(Response) = Some(SubSeq(Response, 2, Len(Response) - 1))
                /\ (Supplied("status") \ {JStr("unclear")} # {}) =>
                        /\ out.ok
                        /\ \A key \in {"icao24", "callsign"} :
                                out.params[key] =
                                    IF Supplied(key) = {} THEN NoneV
                                    ELSE Some(SuppliedOr(key, ""))

\* parse_query has returned a ParsedQuery for the object
\* {"status":"ok","icao24":"3c6444"} standing between two runs of prose.
C22_Witness ==
    /\ Returned
    /\ ProseObjectProse
    /\ Len(Response) = 6
    /\ chat.outcome[1] =
            [ok |-> TRUE, query_type |-> "flights", hint |-> "Download flight list",
             params |-> [NewQueryParams EXCEPT !.icao24 = Some("3c6444")]]

\* The fields of the intermediate structure other than status.
OptionalFields ==
    {"reason", "query_type", "hint", "icao24", "start", "stop", "callsign",
     "departure_airport", "arrival_airport", "airport", "limit", "bounds",
     "time_buffer"}
\* parse_query has returned for a flat object whose members are a status, a
\* start, a time_buffer, or members the structure does not know.
SchemaAnswer ==
    /\ FlatAnswer
    /\ \A m \in AnswerMembers :
            m.k \in {"status", "start", "time_buffer"} \/ m.k \notin OptionalFields
    /\ Supplied("status") \subseteq {JStr("ok")}

\* C23 as stated: deserializing such an object never fails, whichever fields
\* are missing or unknown.
C23_NeverFails ==
    SchemaAnswer => from_str(Response).ok /\ chat.outcome[1].ok

\* C23: deserializing such an object fails exactly when the status member is
\* missing, then with "missing field status" as a Parse error; with a status,
\* every other field the model omits is None, members the structure does not
\* know are ignored, and parse succeeds.
C23_OnlyStatusRequired ==
    SchemaAnswer =>
        LET de == from_str(Response)
            out == chat.outcome[1]
        IN  IF Supplied("status") = {}
            THEN /\ de = [ok |-> FALSE, error |-> <<"missing field ", "status">>]
                 /\ out = [ok |-> FALSE,
                           error |-> [kind |-> "Parse",
                                      msg |-> <<"JSON parse error: ",
                                                <<"missing field ", "status">> >>]]
            ELSE /\ de.ok
                 /\ DOMAIN de.parsed = OptionalFields \cup {"status"}
                 /\ \A key \in OptionalFields :
                        Supplied(key) = {} => de.parsed[key] = NoneV
                 /\ out.ok
                 /\ out.params =
                        [NewQueryParams EXCEPT
                            !.start = IF Supplied("start") = {} THEN NoneV
                                      ELSE Some(SuppliedOr("start", ""))]

\* parse_query has returned a ParsedQuery without parameters for the object
\* {"status":"ok","confidence":0.9,"notes":["guessed the year"]}.
C23_Witness ==
    /\ SchemaAnswer
    /\ {m.k : m \in AnswerMembers} = {"status", "confidence", "notes"}
    /\ chat.outcome[1] =
            [ok |-> TRUE, query_type |-> "flights", hint |-> "Download flight list",
             params |-> NewQueryParams]

\* A call of parse_query is under way or has just returned to send_message.
InParse == chat.pc \in {"llm", "returned"}
\* The step is one of parse_query: it posts the request or it returns.
ParseStep == chat' # chat /\ chat'.pc \in {"llm", "returned"}

\* C24: a call of parse has issued exactly one request from its first step to
\* its return, whatever the answer; when the request fails or the response
\* holds no object, an object of the wrong shape or an unclear status, parse
\* returns an error of a kind of LlmError (the client's own error when the
\* request failed, a Parse error otherwise); and no step of parse changes the
\* shared state or anything but the call itself.
C24_OneRequest ==
    /\ [](InParse => chat.requests = 1)
    /\ [](chat.pc = "returned" =>
            LET answer == chat.answer[1]
                out == chat.outcome[1]
            IN  /\ ~answer.ok => out = [ok |-> FALSE, error |-> answer.error]
                /\ ~out.ok => out.error.kind \in {"Http", "Api", "Parse"}
                /\ (answer.ok /\ ~out.ok) => out.error.kind = "Parse"
                /\ (answer.ok /\ (FlatPairs(answer.response) = {}
                                  \/ ~from_str(find_json(answer.response)[1]).ok
                                  \/ from_str(find_json(answer.response)[1]).parsed.status
                                        = Some("unclear"))) => ~out.ok)
    /\ [][ParseStep => UNCHANGED <<app, lock, units, tasks, cancel, nruns, nprogress>>]_vars

\* parse_query has returned the transport error of its one request; the
\* transcript holds the user's message only.
C24_Witness ==
    /\ chat.pc = "returned"
    /\ chat.requests = 1
    /\ chat.outcome[1] =
            [ok |-> FALSE, error |-> [kind |-> "Http", msg |-> <<"error sending request">>]]
    /\ Len(app.messages) = 1
    /\ app.query_params = NewQueryParams

\* The step ends a call of send_message that could not produce a query: the
\* LLM is not configured, the provider is not supported, or parse failed.
NotConfiguredStep == chat.pc = "loaded" /\ chat'.pc = "idle" /\ ~is_configured(chat.config)
UnsupportedStep == chat.pc = "loaded" /\ chat'.pc = "idle" /\ is_configured(chat.config)
ParseFailedStep == chat.pc = "returned" /\ chat'.pc = "idle" /\ ~chat.outcome[1].ok
\* The sentence of the error message the step leaves in the transcript.
FailureText ==
    IF chat.pc = "returned"
    THEN <<"Sorry, I couldn't understand that query: ",
           <<CASE chat.outcome[1].error.kind = "Parse" -> "Parse error: "
               [] chat.outcome[1].error.kind = "Api" -> "API error: "
               [] chat.outcome[1].error.kind = "Http" -> "HTTP error: ",
             chat.outcome[1].error.msg>> >>
    ELSE IF ~is_configured(chat.config)
    THEN <<"LLM not configured. Please add your API key in Settings.">>
    ELSE <<"Provider '", chat.config.provider, "' not yet supported. Use Groq for now.">>

\* C25: a call of send_message that finds the LLM not configured, the provider
\* unsupported, or gets an error from parse ends with a step that appends one
\* assistant message of type error to the transcript, which still holds the
\* user's message, changes nothing else of the shared state, and returns the
\* transcript as its Ok value; no step of such a call changes the shared
\* params, the execution state or the last result; and a call that finds the
\* LLM not configured has issued no request.
C25_FailureBecomesMessage ==
    /\ [][(NotConfiguredStep \/ UnsupportedStep \/ ParseFailedStep) =>
            /\ app' = [app EXCEPT !.messages =
                            Append(@, [role |-> "assistant", content |-> FailureText,
                                       msg_type |-> "error"])]
            /\ \E i \in 1..Len(app.messages) :
                    app.messages[i] = [role |-> "user", content |-> chat.user_message,
                                       msg_type |-> "text"]
            /\ chat' = ChatIdle(chat.n)
            /\ (NotConfiguredStep =>
                    send_message_not_configured(app).reply = [messages |-> app'.messages])
            /\ (UnsupportedStep =>
                    send_message_unsupported(app, chat.config).reply
                        = [messages |-> app'.messages])
            /\ (ParseFailedStep =>
                    send_message_parsed(app, chat.config, chat.outcome[1]).reply
                        = [messages |-> app'.messages])
            /\ chat.requests = IF ParseFailedStep THEN 1 ELSE 0
          ]_vars
    /\ [][(chat' # chat /\ ~(chat.pc = "returned" /\ chat.outcome[1].ok)) =>
            /\ app'.query_params = app.query_params
            /\ app'.execution = app.execution
            /\ app'.last_result = app.last_result
          ]_vars
    /\ [](chat.pc \in {"llm", "returned"} => is_configured(chat.config))

\* After a run that ended with a result, send_message has answered an unclear
\* query with an error message; the params and the result are as the run left
\* them.
C25_Witness ==
    /\ chat.pc = "idle"
    /\ chat.n = 1
    /\ LastMessage =
            ChatMessage("assistant",
                <<"Sorry, I couldn't understand that query: ",
                  <<"Parse error: ", <<"Query unclear: ", "Query not clear">> >> >>,
                "error")
    /\ app.query_params.start = Some("2024-01-01 00:00:00")
    /\ Exec.result # NoneV
    /\ ~Exec.is_executing

\* The response is one top-level object that holds at least one nested
\* object.
NestedResponse ==
    /\ Len(Response) >= 4
    /\ Response[1] = LBrace
    /\ Response[Len(Response)] = RBrace
    /\ \E i \in 2..(Len(Response) - 1) : Response[i] = LBrace
    /\ \A i \in 1..(Len(Response) - 1) :
            Cardinality({k \in 1..i : Response[k] = LBrace})
                > Cardinality({k \in 1..i : Response[k] = RBrace})
\* The members of the top-level object itself.
TopLevelMembers ==
    {Response[i] : i \in {i \in 2..(Len(Response) - 1) :
        /\ Response[i].t = "member"
        /\ Cardinality({k \in 1..i : Response[k] = LBrace})
                - Cardinality({k \in 1..i : Response[k] = RBrace}) = 1}}

\* C26: when the response is a top-level object holding a nested object, the
\* text parse extracts is not the top-level object but the leftmost brace pair
\* inside it that holds no brace, parse returns what it returns for that
\* nested object alone, and a ParsedQuery it returns has none of the
\* top-level icao24 and start; when the response is a flat object with a
\* bounds array of four numbers, the extracted text is the whole object and
\* the bounds are set.
C26_NestingBreaks ==
    /\ (Returned /\ NestedResponse) =>
            LET p == Leftmost(FlatPairs(Response))
                inner == SubSeq(Response, p[1], p[2])
                out == chat.outcome[1]
            IN  /\ find_json(Response) # Some(Response)
                /\ 1 < p[1] /\ p[2] < Len(Response)
                /\ find_json(Response) = Some(inner)
                /\ out = extract_params(inner)
                /\ {m.k : m \in TopLevelMembers} = {"status", "icao24", "start"}
                /\ out.ok => out.params.icao24 = NoneV /\ out.params.start = NoneV
    /\ (FlatAnswer /\ \E b \in Supplied("bounds") : IsNumberArray(b) /\ Len(b.items) = 4) =>
            /\ find_json(Response) = Some(Response)
            /\ chat.outcome[1].ok
            /\ chat.outcome[1].params.bounds # NoneV

\* parse_query has returned for {"status":"ok","icao24":"3c6444","filter":
\* {"status":"ok","callsign":"DLH123"},"start":...}: the ParsedQuery has the
\* nested callsign and neither the icao24 nor the start.
C26_Witness ==
    /\ Returned
    /\ NestedResponse
    /\ Len(Response) = 10
    /\ chat.outcome[1] =
            [ok |-> TRUE, query_type |-> "flights", hint |-> "Download flight list",
             params |-> [NewQueryParams EXCEPT !.callsign = Some("DLH123")]]

\* C27: under fair scheduling and with every remote call returning, whenever
\* a run is executing (which an accepted start alone brings about) the state
\* later has is_executing = false and a result, with or without a cancel in
\* between.
C27_StartLeadsToTerminal ==
    Exec.is_executing ~> (~Exec.is_executing /\ IsSome(Exec.result))

\* The run was cancelled with a handle recorded, and its unit has made its
\* terminal write since: nothing is executing and there is a result.
C27_Witness ==
    /\ nruns = 1
    /\ units[1] = DoneUnit
    /\ \E i \in 1..Len(Exec.logs) : Exec.logs[i] = <<"Trino query cancelled">>
    /\ ~Exec.is_executing
    /\ IsSome(Exec.result)

\* C28: the query_id in the execution state, and the one a cancel under way
\* sends to the engine, is None or the handle of the run of the latest
\* accepted start.
C28_HandleOfCurrentRun ==
    /\ Exec.query_id \in {NoneV, Some(Handle(nruns))}
    /\ cancel.qid \in {NoneV, Some(Handle(nruns))}

\* C29: from an accepted cancel to the next accepted start no step changes
\* the last result, so export_csv gives what it gave before the cancel.
C29_CancelledRunKeepsLastResult ==
    [][(Exec.result = Some(Cancelled) /\ ~StartAccepted) =>
            /\ app'.last_result = app.last_result
            /\ export_csv_locked(app') = export_csv_locked(app)]_vars

\* The step is a unit's terminal write of a Success result.
SuccessWrite ==
    /\ \E r \in Runs : units[r].pc = "querying" /\ units'[r] = DoneUnit
    /\ IsSome(Exec'.result)
    /\ Exec'.result[1].variant = "Success"

\* C30: a step that changes the last result is a unit's terminal write of a
\* Success result, and it stores the data whose rows and columns that result
\* reports; every other step (an accepted or rejected start, a progress
\* task, a step of cancel, a NoData or Error terminal write, a connection
\* error) leaves the last result, and with it what export_csv gives,
\* unchanged.
C30_LastResultFrame ==
    [][/\ app'.last_result # app.last_result =>
            /\ SuccessWrite
            /\ IsSome(app'.last_result)
            /\ Exec'.result[1].row_count = app'.last_result[1].row_count
            /\ Exec'.result[1].columns = app'.last_result[1].columns
            /\ app'.last_result[1].row_count >= 1
       /\ ~SuccessWrite =>
            /\ app'.last_result = app.last_result
            /\ export_csv_locked(app') = export_csv_locked(app)
      ]_vars

\* A first run ended in Success with two rows, and a second run has ended in
\* NoData since: the last result is still the two rows.
C30_Witness ==
    /\ nruns = 2
    /\ units[1] = DoneUnit /\ units[2] = DoneUnit
    /\ Exec.result = Some(NoData("No data found"))
    /\ ~Exec.is_executing
    /\ export_csv_locked(app) =
            [success |-> TRUE, written |-> [row_count |-> 2, columns |-> Columns2]]

\* C31: with no start time in the shared params, a start is answered "Start
\* time is required", leaves the whole shared state as it is and spawns
\* nothing, whether or not a run is executing; and no step taken from such a
\* state is an accepted start or brings a new unit to life.
C31_StartTimeRequired ==
    /\ []((lock = "free" /\ app.query_params.start = NoneV) =>
            execute_query_async_locked(app) =
                [reply |-> [error |-> "Start time is required"],
                 app |-> app, spawn |-> FALSE])
    /\ [][app.query_params.start = NoneV =>
            /\ ~StartAccepted
            /\ \A r \in Runs : units[r].pc = "none" => units'[r].pc = "none"
          ]_vars

\* A run is executing with its handle recorded, and the start time has been
\* taken out of the shared params since: a start now is the rejected one.
C31_Witness ==
    /\ lock = "free"
    /\ Exec.is_executing
    /\ IsSome(Exec.query_id)
    /\ app.query_params.start = NoneV
    /\ execute_query_async_locked(app).reply = StartRequired

\* The step ends a call of send_message whose parse returned a ParsedQuery.
ParsedStep == chat.pc = "returned" /\ chat'.pc = "idle" /\ chat.outcome[1].ok
\* The engine method a query type stands for.
MethodOf(query_type) ==
    CASE query_type = "trajectory" -> "history_with_progress"
      [] query_type = "flights" -> "flightlist_with_progress"
      [] query_type = "rawdata" -> "rawdata_with_progress"

\* C32: the step that ends a successful parse makes the shared params equal
\* to the parsed params, field by field, appends one assistant message of type
\* code to the transcript, leaves the shared query type, the execution state
\* and the last result as they are, and returns the parsed query type in its
\* reply; and the unit an accepted start spawns issues the engine call of the
\* shared query type, on the shared params, as they are at that start.
C32_ParseKeepsQueryType ==
    /\ [][ParsedStep =>
            LET out == chat.outcome[1]
                reply == send_message_parsed(app, chat.config, out).reply
            IN  /\ app'.query_params = out.params
                /\ Len(app'.messages) = Len(app.messages) + 1
                /\ SubSeq(app'.messages, 1, Len(app.messages)) = app.messages
                /\ app'.messages[Len(app'.messages)].role = "assistant"
                /\ app'.messages[Len(app'.messages)].msg_type = "code"
                /\ app'.messages[Len(app'.messages)].hint = out.hint
                /\ app'.query_type = app.query_type
                /\ app'.execution = app.execution
                /\ app'.last_result = app.last_result
                /\ reply.query_type = out.query_type
                /\ reply.messages = app'.messages
          ]_vars
    /\ [][StartAccepted =>
            engine_call(units'[nruns + 1]) =
                [method |-> MethodOf(app.query_type), params |-> app.query_params]
          ]_vars

\* A run started after the parse of a trajectory query is at its engine call:
\* it has the parsed start time, and the flight list method of the query type
\* that was selected before the parse.
C32_Witness ==
    /\ units[1].pc = "querying"
    /\ chat.pc = "idle" /\ chat.n = 1
    /\ Len(app.messages) = 2
    /\ LastMessage.msg_type = "code"
    /\ LastMessage.content[2] = "history"
    /\ app.query_type = "flights"
    /\ engine_call(units[1]) =
            [method |-> "flightlist_with_progress",
             params |-> [NewQueryParams EXCEPT !.start = Some("2024-02-02 00:00:00")]]

====
